---------------------------- MODULE Spec2Model ----------------------------
(***************************************************************************)
(* Model of the connection subsystem of DatabaseManager:                   *)
(*   backend/database/manager.go   ConnectionManager (registry + RWMutex)  *)
(*   backend/database/*.go         the per-backend adapters                *)
(* Request-handling goroutines are the processes; every manager operation  *)
(* is split at the points where the code blocks on a backend call, so the  *)
(* lock that is held across the call is visible in the state.              *)
(***************************************************************************)
EXTENDS Integers, Sequences, FiniteSets, TLC

(* ------------------------------ bounds --------------------------------- *)
NumIds == 2
NumProcs == 2
MaxLeaked == 1
MaxRestore == 3
MaxConns == 1
MaxRequests == 4
MaxStoreCalls == 3

Ids == 1..NumIds
Procs == 1..NumProcs
RestoreIds == 1..MaxRestore
ApiIds == 1..MaxConns
IdSpace == Ids \cup RestoreIds \cup ApiIds

(* -------------------------- program constants -------------------------- *)
CloseAllTimeout == 10

(* ------------------------- backend-variant tags ------------------------ *)
PgTypes == {"PostgreSQL", "Supabase", "CockroachDB"}
HttpTypes == {"Elasticsearch", "Meilisearch", "InfluxDB", "Neo4j",
              "Couchbase", "Druid", "Kafka", "RabbitMQ"}
ReturnCloseTypes == {"MongoDB", "Redis", "ClickHouse"}
KnownTypes == PgTypes \cup HttpTypes \cup ReturnCloseTypes
                \cup {"Cassandra", "Aerospike", "Zookeeper"}

\* The tags the requests of the explored runs carry: adapters of different
\* patterns, and one tag the factory does not know.
ConnTypes == {"MongoDB", "Cassandra", "Elasticsearch", "Oracle"}
RestoreTypes == {"PostgreSQL", "Cassandra", "Zookeeper", "Kafka", "Oracle"}

\* Tags that are not among the models.DatabaseType constants; the switch of
\* the factory compares strings exactly.
UnknownTags == {"Oracle", "", "postgresql"}

(* ---------------------------- adapter state ---------------------------- *)
\* handle: the adapter's client field (pool / client / session / conn /
\*         baseURL) is set;  sess: the backend session the client library
\*         opened for it.
NoInst == [type |-> "none", handle |-> FALSE, sess |-> "none"]

NewDriver(t) == [type |-> t, handle |-> FALSE, sess |-> "none"]

\* The factory without its default branch.
CreateDriverNoDefault(t) == NewDriver(t)

CreateDriver(t) == IF t \in KnownTypes THEN NewDriver(t) ELSE NoInst

\* Adapter Connect.  upv: the backend answers; accept: it accepts the
\* credentials; auth: the descriptor carries a username and a password.
\* Result: the adapter afterwards and whether an error is returned.
\* The error returns for an address the client library cannot parse are not
\* modelled here; the request layer models the DSN the ClickHouse adapter
\* builds (DsnParses).
\* pgxpool.NewWithConfig, then Ping; the pool is closed when Ping fails.
PgConnect(d, upv, accept) ==
    IF upv /\ accept
    THEN [drv |-> [d EXCEPT !.handle = TRUE, !.sess = "open"], err |-> FALSE]
    ELSE [drv |-> [d EXCEPT !.sess = "closed"], err |-> TRUE]

\* mongo.Connect / redis.NewClient / clickhouse.Open, then Ping; the client
\* is neither stored nor closed when Ping fails.
PingAfterOpenConnect(d, upv, accept) ==
    IF upv /\ accept
    THEN [drv |-> [d EXCEPT !.handle = TRUE, !.sess = "open"], err |-> FALSE]
    ELSE [drv |-> [d EXCEPT !.sess = "open"], err |-> TRUE]

\* cluster.CreateSession / aerospike.NewClientWithPolicyAndHost: the session
\* is opened eagerly, nothing exists when that fails.
CassandraConnect(d, upv, accept) ==
    IF upv /\ accept
    THEN [drv |-> [d EXCEPT !.handle = TRUE, !.sess = "open"], err |-> FALSE]
    ELSE [drv |-> d, err |-> TRUE]

\* zk.Connect returns the connection object at once and dials in the
\* background, whether or not the server answers; it is stored in d.conn
\* directly.  Only AddAuth, made when the descriptor has a username and a
\* password, talks to the server before Connect returns.  There is no Ping.
ZookeeperConnect(d, upv, accept, auth) ==
    [drv |-> [d EXCEPT !.handle = TRUE, !.sess = "open"],
     err |-> auth /\ ~(upv /\ accept)]

\* baseURL is set, then Ping.
HttpConnect(d, upv, accept) ==
    [drv |-> [d EXCEPT !.handle = TRUE], err |-> ~(upv /\ accept)]

DriverConnect(d, upv, accept, auth) ==
    CASE d.type \in PgTypes -> PgConnect(d, upv, accept)
      [] d.type \in ReturnCloseTypes -> PingAfterOpenConnect(d, upv, accept)
      [] d.type \in {"Cassandra", "Aerospike"} -> CassandraConnect(d, upv, accept)
      [] d.type = "Zookeeper" -> ZookeeperConnect(d, upv, accept, auth)
      [] OTHER -> HttpConnect(d, upv, accept)

\* Adapter Disconnect.  closeErr: the client library's close call fails.
CloseAndNilDisconnect(d) ==
    IF d.handle
    THEN [drv |-> [d EXCEPT !.handle = FALSE, !.sess = "closed"], err |-> FALSE]
    ELSE [drv |-> d, err |-> FALSE]

ReturnCloseDisconnect(d, closeErr) ==
    IF d.handle
    THEN [drv |-> [d EXCEPT !.sess = "closed"], err |-> closeErr]
    ELSE [drv |-> d, err |-> FALSE]

HttpDisconnect(d) ==
    [drv |-> [d EXCEPT !.handle = FALSE], err |-> FALSE]

DriverDisconnect(d, closeErr) ==
    CASE d.type \in ReturnCloseTypes -> ReturnCloseDisconnect(d, closeErr)
      [] d.type \in HttpTypes -> HttpDisconnect(d)
      [] OTHER -> CloseAndNilDisconnect(d)

\* Adapter IsConnected.  noticed: the client library's background loop has
\* already noticed that the backend is gone.
PingIsConnected(d, upv) == d.handle /\ d.sess = "open" /\ upv

HttpIsConnected(d, upv) == d.handle /\ upv

CassandraIsConnected(d) == d.handle /\ d.sess # "closed"

LibStateIsConnected(d, upv, noticed) == d.handle /\ (upv \/ ~noticed)

DriverIsConnected(d, upv, noticed) ==
    CASE d.type \in HttpTypes -> HttpIsConnected(d, upv)
      [] d.type = "Cassandra" -> CassandraIsConnected(d)
      [] d.type \in {"Zookeeper", "Aerospike"} -> LibStateIsConnected(d, upv, noticed)
      [] OTHER -> PingIsConnected(d, upv)

(* ------------------------------- state --------------------------------- *)
VARIABLES
    drivers,     \* m.drivers: identifier -> registered adapter, NoInst = no entry
    leaked,      \* backend sessions left open that no registry entry refers to
    up,          \* environment: the backend of descriptor id is reachable
    mu,          \* m.mu: [writer: process or 0, readers: set of processes]
    pc,          \* each request goroutine: where it is, and its call's arguments
    ret,         \* the manager call that returned last
    lastTerm,    \* history: last terminal transition requested per identifier
    ctxLeft,     \* time left on the context CloseAll passes to Disconnect
    connections, \* startup: the persisted descriptors handed to RestoreConnections
    ri,          \* startup: RestoreConnections' loop position, 0 = not running
    attempted,   \* history: identifiers RestoreConnections called Connect for
    resp,        \* request layer: the response the last handler wrote
    issued,      \* request layer: identifiers uuid.New has handed out
    edited,      \* history: per identifier, the fields as last created or edited
    nreq,        \* request layer: how many requests have been served
    zconn,       \* Zookeeper adapter: d.conn is set
    znodes,      \* Zookeeper backend: the znodes, each the segments of its path
    zret,        \* Zookeeper adapter: what the last operation returned
    greq,        \* routing: the request being routed, [path, method, header]
    gat,         \* routing: where the request is: idle, cors, mux, gate, handler
    gresp,       \* routing: the response written, and the handler that wrote it
    hpc,         \* concurrent handlers: where each request goroutine is
    cfgMu,       \* configuration store: who holds config.mu, "free" if nobody
    arrays,      \* configuration store: the backing arrays slices point into
    cfgConns,    \* configuration store: the slice `connections`, [a, n]
    connFile,    \* the descriptors in the connections file as last written
    appFile,     \* the application config file: missing, empty, unreadable, ok
    boot,        \* main: where startup is from LoadAppConfig to ListenAndServe
    spc,         \* configuration store: each request goroutine's store call
    sret,        \* configuration store: the store call that returned last
    hist         \* history of the store calls, see NoHist

\* The manager, its adapters and the request layer.
mgrVars == <<drivers, leaked, up, mu, pc, ret, lastTerm, ctxLeft,
             connections, ri, attempted, resp, issued, edited, nreq>>

zkVars == <<zconn, znodes, zret>>

gateVars == <<greq, gat, gresp>>

\* The parts of the program the manager and the connection handlers do not
\* touch.
raceVars == <<hpc>>

storeVars == <<cfgMu, arrays, cfgConns, connFile, appFile, boot, spc, sret, hist>>

sideVars == <<zkVars, gateVars, raceVars, storeVars>>

\* What the operations of one part leave alone.
notZk == <<mgrVars, gateVars, raceVars, storeVars>>
notGate == <<mgrVars, zkVars, raceVars, storeVars>>
notRace == <<zkVars, gateVars, storeVars>>
notStore == <<mgrVars, zkVars, gateVars, raceVars>>

vars == <<mgrVars, sideVars>>

\* seen: history, the backend of id was reachable when the call began.
Idle == [at |-> "idle", id |-> 0, type |-> "none", seen |-> FALSE]

\* err: "nil" or the error kind; val: IsConnected's answer; disc: how many
\* times the call invoked an adapter's Disconnect.
NoRet == [op |-> "none", err |-> "nil", val |-> FALSE, disc |-> 0]

OpenSess(d) == IF d.sess = "open" THEN 1 ELSE 0

\* secrets: the passwords that can be read in the body; calls: how many
\* operations of the capability contract the handler forwarded; cause:
\* history, what the manager or adapter call behind the response ran into.
NoResp == [h |-> "none", status |-> 0, body |-> "none", secrets |-> {},
           calls |-> 0, cause |-> "none"]

NoEdit == [type |-> "none", pw |-> "none"]

\* out: "nil", "error" or "panic"; list: the names ListDatabases returned.
NoZkRet == [op |-> "none", name |-> <<>>, out |-> "nil", list |-> {}]

ZkInit == zconn = FALSE /\ znodes = {} /\ zret = NoZkRet

\* handler: the handler that was invoked for the request, "none" if none was.
NoGResp == [status |-> 0, handler |-> "none"]

GateInit ==
    /\ greq = [path |-> "none", method |-> "none", header |-> <<>>]
    /\ gat = "idle"
    /\ gresp = NoGResp

\* c: the handler's copy of the descriptor; d: the adapter GetDriver handed
\* out and op the operation running on it; cur: history, d is still the
\* adapter the registry holds; nilled: history, Disconnect has cleared d's
\* client field since the operation tested it.
HIdle == [at |-> "idle", id |-> 0,
          c |-> [id |-> 0, type |-> "none", pw |-> "", connected |-> FALSE],
          d |-> NoInst, op |-> "none", cur |-> FALSE, nilled |-> FALSE]

RaceInit == hpc = [p \in Procs |-> HIdle]

\* A slice is the backing array it points into (0 = none) and its length.
NilSlice == [a |-> 0, n |-> 0]

\* A stored descriptor as the store sees it: its identifier and the state of
\* its other fields; NoDesc is the zero value of an unused array slot.
Desc(i) == [id |-> i, rev |-> 0]

NoDesc == [id |-> 0, rev |-> 0]

\* s: the call's local slice conns; id: the descriptor the call is about.
SIdle == [at |-> "idle", s |-> NilSlice, id |-> 0]

NoSRet == [op |-> "none", err |-> "nil", id |-> 0]

\* calls: store calls begun; next: the next identifier uuid.New hands out;
\* initial: the identifiers LoadConnections read; added, deleted: the
\* identifiers AddConnection and DeleteConnection returned nil for; failed: a
\* file write has failed.
NoHist == [calls |-> 0, next |-> 1, initial |-> {}, added |-> {}, deleted |-> {},
           failed |-> FALSE]

\* The store is as before main has loaded anything.
SideInit ==
    /\ ZkInit /\ GateInit /\ RaceInit
    /\ cfgMu = "free"
    /\ arrays = <<>>
    /\ cfgConns = NilSlice
    /\ connFile = <<>>
    /\ appFile = "ok"
    /\ boot = "start"
    /\ spc = [p \in Procs |-> SIdle]
    /\ sret = NoSRet
    /\ hist = NoHist

\* Nothing registered, nothing stored, no call in progress.
Quiet ==
    /\ drivers = [i \in IdSpace |-> NoInst]
    /\ leaked = 0
    /\ up = [i \in IdSpace |-> TRUE]
    /\ mu = [writer |-> 0, readers |-> {}]
    /\ pc = [p \in Procs |-> Idle]
    /\ ret = NoRet
    /\ lastTerm = [i \in IdSpace |-> "none"]
    /\ ctxLeft = CloseAllTimeout
    /\ connections = <<>>
    /\ ri = 0
    /\ attempted = {}
    /\ resp = NoResp
    /\ issued = {}
    /\ edited = [i \in IdSpace |-> NoEdit]
    /\ nreq = 0

Init ==
    /\ drivers = [i \in IdSpace |-> NoInst]
    /\ leaked = 0
    /\ up \in [IdSpace -> BOOLEAN]
    /\ \A i \in IdSpace \ Ids : up[i]
    /\ mu = [writer |-> 0, readers |-> {}]
    /\ pc = [p \in Procs |-> Idle]
    /\ ret = NoRet
    /\ lastTerm = [i \in IdSpace |-> "none"]
    /\ ctxLeft = CloseAllTimeout
    /\ connections = <<>>
    /\ ri = 0
    /\ attempted = {}
    /\ resp = NoResp
    /\ issued = {}
    /\ edited = [i \in IdSpace |-> NoEdit]
    /\ nreq = 0
    /\ SideInit

(* --------------------------- the registry lock ------------------------- *)
CanLock == mu.writer = 0 /\ mu.readers = {}
CanRLock == mu.writer = 0

(* ------------------- ConnectionManager, as functions ------------------- *)
\* Connect between taking and releasing m.mu: the registry afterwards, the
\* sessions the call left open without a registry entry, the error returned
\* and the number of adapter Disconnect calls it made.
ManagerConnect(drv, id, t, auth, upv, accept) ==
    LET d == CreateDriver(t) IN
    IF d = NoInst
    THEN [drivers |-> drv, leak |-> 0, err |-> "unsupported", disc |-> 0]
    ELSE LET r == DriverConnect(d, upv, accept, auth)
         IN IF r.err
            THEN [drivers |-> drv, leak |-> OpenSess(r.drv), err |-> "connect", disc |-> 0]
            ELSE [drivers |-> [drv EXCEPT ![id] = r.drv], leak |-> OpenSess(drv[id]),
                  err |-> "nil", disc |-> 0]

ManagerDisconnect(drv, id, closeErr) ==
    IF drv[id] = NoInst
    THEN [drivers |-> drv, err |-> "notfound", disc |-> 0]
    ELSE LET r == DriverDisconnect(drv[id], closeErr)
         IN IF r.err
            THEN [drivers |-> [drv EXCEPT ![id] = r.drv], err |-> "disconnect", disc |-> 1]
            ELSE [drivers |-> [drv EXCEPT ![id] = NoInst], err |-> "nil", disc |-> 1]

\* GetDriver without the test of the map lookup's second result.
ManagerGetDriverNoCheck(drv, id) == [d |-> drv[id], err |-> "nil"]

ManagerGetDriver(drv, id) ==
    IF drv[id] = NoInst THEN [d |-> NoInst, err |-> "notfound"]
                        ELSE [d |-> drv[id], err |-> "nil"]

ManagerIsConnected(drv, id, upv, noticed) ==
    IF drv[id] = NoInst THEN FALSE ELSE DriverIsConnected(drv[id], upv, noticed)

\* One iteration of CloseAll's loop, for the identifier the map range yields:
\* the adapter's error is dropped and the entry deleted.
CloseAllOne(drv, id, closeErr) ==
    LET r == DriverDisconnect(drv[id], closeErr)
    IN [drivers |-> [drv EXCEPT ![id] = NoInst], leak |-> OpenSess(r.drv), disc |-> 1]

(* ------------------------------ Connect -------------------------------- *)
\* The factory knows no adapter for the tag: Lock, return, Unlock.
ConnectUnsupported(p, id, t) ==
    /\ pc[p].at = "idle" /\ CanLock
    /\ CreateDriver(t) = NoInst
    /\ LET r == ManagerConnect(drivers, id, t, FALSE, up[id], TRUE)
       IN ret' = [NoRet EXCEPT !.op = "Connect", !.err = r.err]
    /\ UNCHANGED <<sideVars, drivers, leaked, up, mu, pc, lastTerm, ctxLeft,
                   connections, ri, attempted, resp, issued, edited, nreq>>

\* m.mu.Lock(); the factory made an adapter; driver.Connect is now running.
ConnectBegin(p, id, t) ==
    /\ pc[p].at = "idle" /\ CanLock
    /\ CreateDriver(t) # NoInst
    /\ leaked < MaxLeaked
    /\ mu' = [mu EXCEPT !.writer = p]
    /\ pc' = [pc EXCEPT ![p] = [at |-> "connecting", id |-> id, type |-> t, seen |-> up[id]]]
    /\ UNCHANGED <<sideVars, drivers, leaked, up, ret, lastTerm, ctxLeft, connections, ri, attempted, resp, issued, edited, nreq>>

\* driver.Connect returned; the registry is updated; the deferred Unlock runs.
ConnectEnd(p) ==
    /\ pc[p].at = "connecting"
    /\ \E accept \in BOOLEAN, auth \in BOOLEAN :
         LET id == pc[p].id
             r == ManagerConnect(drivers, id, pc[p].type, auth, up[id], accept)
         IN /\ drivers' = r.drivers
            /\ leaked' = leaked + r.leak
            /\ ret' = [NoRet EXCEPT !.op = "Connect", !.err = r.err, !.disc = r.disc]
            /\ lastTerm' = IF r.err = "nil" THEN [lastTerm EXCEPT ![id] = "connect"]
                           ELSE lastTerm
    /\ mu' = [mu EXCEPT !.writer = 0]
    /\ pc' = [pc EXCEPT ![p] = Idle]
    /\ UNCHANGED <<sideVars, up, ctxLeft, connections, ri, attempted, resp, issued, edited, nreq>>

(* ----------------------------- Disconnect ------------------------------ *)
\* No entry: Lock, return the not-found error, Unlock.
DisconnectNotFound(p, id) ==
    /\ pc[p].at = "idle" /\ CanLock
    /\ drivers[id] = NoInst
    /\ LET r == ManagerDisconnect(drivers, id, FALSE)
       IN ret' = [NoRet EXCEPT !.op = "Disconnect", !.err = r.err, !.disc = r.disc]
    /\ lastTerm' = [lastTerm EXCEPT ![id] = "disconnect"]
    /\ UNCHANGED <<sideVars, drivers, leaked, up, mu, pc, ctxLeft, connections, ri, attempted, resp, issued, edited, nreq>>

\* m.mu.Lock(); the entry exists; driver.Disconnect is now running.
DisconnectBegin(p, id) ==
    /\ pc[p].at = "idle" /\ CanLock
    /\ drivers[id] # NoInst
    /\ mu' = [mu EXCEPT !.writer = p]
    /\ pc' = [pc EXCEPT ![p] = [at |-> "disconnecting", id |-> id, type |-> "none", seen |-> up[id]]]
    /\ UNCHANGED <<sideVars, drivers, leaked, up, ret, lastTerm, ctxLeft, connections, ri, attempted, resp, issued, edited, nreq>>

\* driver.Disconnect returned; the deferred Unlock runs.
DisconnectEnd(p) ==
    /\ pc[p].at = "disconnecting"
    /\ \E closeErr \in BOOLEAN :
         LET id == pc[p].id
             r == ManagerDisconnect(drivers, id, closeErr)
         IN /\ drivers' = r.drivers
            /\ ret' = [NoRet EXCEPT !.op = "Disconnect", !.err = r.err, !.disc = r.disc]
            /\ lastTerm' = [lastTerm EXCEPT ![id] = "disconnect"]
    /\ mu' = [mu EXCEPT !.writer = 0]
    /\ pc' = [pc EXCEPT ![p] = Idle]
    /\ UNCHANGED <<sideVars, leaked, up, ctxLeft, connections, ri, attempted, resp, issued, edited, nreq>>

(* ------------------------------ GetDriver ------------------------------ *)
GetDriver(p, id) ==
    /\ pc[p].at = "idle" /\ CanRLock
    /\ LET r == ManagerGetDriver(drivers, id)
       IN ret' = [NoRet EXCEPT !.op = "GetDriver", !.err = r.err]
    /\ UNCHANGED <<sideVars, drivers, leaked, up, mu, pc, lastTerm, ctxLeft,
                   connections, ri, attempted, resp, issued, edited, nreq>>

(* ----------------------------- IsConnected ----------------------------- *)
\* No entry: RLock, return false, RUnlock.
IsConnectedAbsent(p, id) ==
    /\ pc[p].at = "idle" /\ CanRLock
    /\ drivers[id] = NoInst
    /\ ret' = [NoRet EXCEPT !.op = "IsConnected",
                            !.val = ManagerIsConnected(drivers, id, up[id], TRUE)]
    /\ UNCHANGED <<sideVars, drivers, leaked, up, mu, pc, lastTerm, ctxLeft,
                   connections, ri, attempted, resp, issued, edited, nreq>>

\* m.mu.RLock(); the entry exists; driver.IsConnected is now running.
IsConnectedBegin(p, id) ==
    /\ pc[p].at = "idle" /\ CanRLock
    /\ drivers[id] # NoInst
    /\ mu' = [mu EXCEPT !.readers = @ \cup {p}]
    /\ pc' = [pc EXCEPT ![p] = [at |-> "probing", id |-> id, type |-> "none", seen |-> up[id]]]
    /\ UNCHANGED <<sideVars, drivers, leaked, up, ret, lastTerm, ctxLeft, connections, ri, attempted, resp, issued, edited, nreq>>

\* driver.IsConnected returned; the deferred RUnlock runs.
IsConnectedEnd(p) ==
    /\ pc[p].at = "probing"
    /\ \E noticed \in BOOLEAN :
         ret' = [NoRet EXCEPT !.op = "IsConnected",
                   !.val = ManagerIsConnected(drivers, pc[p].id, up[pc[p].id], noticed)]
    /\ mu' = [mu EXCEPT !.readers = @ \ {p}]
    /\ pc' = [pc EXCEPT ![p] = Idle]
    /\ UNCHANGED <<sideVars, drivers, leaked, up, lastTerm, ctxLeft, connections, ri, attempted, resp, issued, edited, nreq>>

(* ------------------------------ CloseAll ------------------------------- *)
\* m.mu.Lock(); one context with the whole timeout is created.
CloseAllBegin(p) ==
    /\ pc[p].at = "idle" /\ CanLock
    /\ mu' = [mu EXCEPT !.writer = p]
    /\ pc' = [pc EXCEPT ![p] = [at |-> "closing", id |-> 0, type |-> "none", seen |-> FALSE]]
    /\ ctxLeft' = CloseAllTimeout
    /\ UNCHANGED <<sideVars, drivers, leaked, up, ret, lastTerm, connections, ri, attempted, resp, issued, edited, nreq>>

\* One loop iteration.  took: how long the adapter's Disconnect ran; a call
\* that hangs runs until the context's deadline.
CloseAllStep(p) ==
    /\ pc[p].at = "closing"
    /\ \E id \in Ids, closeErr \in BOOLEAN, took \in {0, ctxLeft} :
         /\ drivers[id] # NoInst
         /\ LET r == CloseAllOne(drivers, id, closeErr)
            IN /\ drivers' = r.drivers
               /\ leaked' = leaked + r.leak
               /\ ret' = [NoRet EXCEPT !.op = "CloseAllStep", !.disc = r.disc]
         /\ lastTerm' = [lastTerm EXCEPT ![id] = "shutdown"]
         /\ ctxLeft' = ctxLeft - took
    /\ UNCHANGED <<sideVars, up, mu, pc, connections, ri, attempted, resp, issued, edited, nreq>>

\* The range is exhausted; cancel() and the deferred Unlock run.
CloseAllEnd(p) ==
    /\ pc[p].at = "closing"
    /\ \A id \in Ids : drivers[id] = NoInst
    /\ mu' = [mu EXCEPT !.writer = 0]
    /\ pc' = [pc EXCEPT ![p] = Idle]
    /\ ret' = [NoRet EXCEPT !.op = "CloseAll"]
    /\ lastTerm' = [i \in IdSpace |-> IF i \in Ids THEN "shutdown" ELSE lastTerm[i]]
    /\ ctxLeft' = CloseAllTimeout
    /\ UNCHANGED <<sideVars, drivers, leaked, up, connections, ri, attempted, resp, issued, edited, nreq>>

(* ---------------------------- environment ------------------------------ *)
BackendFlip(id) ==
    /\ up' = [up EXCEPT ![id] = ~up[id]]
    /\ UNCHANGED <<sideVars, drivers, leaked, mu, pc, ret, lastTerm, ctxLeft,
                   connections, ri, attempted, resp, issued, edited, nreq>>

Next ==
    \/ \E p \in Procs, id \in Ids, t \in ConnTypes \cup UnknownTags :
          ConnectUnsupported(p, id, t)
    \/ \E p \in Procs, id \in Ids, t \in ConnTypes : ConnectBegin(p, id, t)
    \/ \E p \in Procs : ConnectEnd(p)
    \/ \E p \in Procs, id \in Ids : DisconnectNotFound(p, id)
    \/ \E p \in Procs, id \in Ids : DisconnectBegin(p, id)
    \/ \E p \in Procs : DisconnectEnd(p)
    \/ \E p \in Procs, id \in Ids : GetDriver(p, id)
    \/ \E p \in Procs, id \in Ids : IsConnectedAbsent(p, id)
    \/ \E p \in Procs, id \in Ids : IsConnectedBegin(p, id)
    \/ \E p \in Procs : IsConnectedEnd(p)
    \/ \E p \in Procs : CloseAllBegin(p)
    \/ \E p \in Procs : CloseAllStep(p)
    \/ \E p \in Procs : CloseAllEnd(p)
    \/ \E id \in Ids : BackendFlip(id)

Spec == Init /\ [][Next]_vars

(* ------------------------- startup: main() ----------------------------- *)
\* main() builds the manager, loads the persisted descriptors and hands them
\* to RestoreConnections before the HTTP server starts: no request runs yet.
\* auth: Username and Password are both non-empty (only the Zookeeper
\* adapter's Connect branches on it).
Descriptors(n) ==
    {c \in [1..n -> [id : RestoreIds, type : RestoreTypes, connected : BOOLEAN,
                     auth : BOOLEAN]] :
        \A i \in 1..n : c[i].id = i /\ (c[i].type # "Zookeeper" => c[i].auth)}

InitRestore ==
    /\ drivers = [i \in IdSpace |-> NoInst]
    /\ leaked = 0
    /\ \E n \in 0..MaxRestore :
         /\ connections \in Descriptors(n)
         /\ up \in [IdSpace -> BOOLEAN]
         /\ \A i \in IdSpace : i > n => up[i]
    /\ mu = [writer |-> 0, readers |-> {}]
    /\ pc = [p \in Procs |-> Idle]
    /\ ret = NoRet
    /\ lastTerm = [i \in IdSpace |-> "none"]
    /\ ctxLeft = CloseAllTimeout
    /\ ri = 1
    /\ attempted = {}
    /\ resp = NoResp
    /\ issued = {}
    /\ edited = [i \in IdSpace |-> NoEdit]
    /\ nreq = 0
    /\ SideInit

\* A loop iteration for a descriptor whose Connected flag is set: Connect is
\* called (Lock ... Unlock), an error is printed and the loop continues.
RestoreConnect ==
    /\ ri \in 1..Len(connections)
    /\ connections[ri].connected
    /\ \E accept \in BOOLEAN :
         LET c == connections[ri]
             r == ManagerConnect(drivers, c.id, c.type, c.auth, up[c.id], accept)
         IN /\ drivers' = r.drivers
            /\ leaked' = leaked + r.leak
            /\ ret' = [NoRet EXCEPT !.op = "Connect", !.err = r.err, !.disc = r.disc]
            /\ lastTerm' = IF r.err = "nil" THEN [lastTerm EXCEPT ![c.id] = "connect"]
                           ELSE lastTerm
            /\ attempted' = attempted \cup {c.id}
    /\ ri' = ri + 1
    /\ UNCHANGED <<sideVars, up, mu, pc, ctxLeft, connections, resp, issued, edited, nreq>>

\* A loop iteration for a descriptor whose Connected flag is not set.
RestoreSkip ==
    /\ ri \in 1..Len(connections)
    /\ ~connections[ri].connected
    /\ ri' = ri + 1
    /\ UNCHANGED <<sideVars, drivers, leaked, up, mu, pc, ret, lastTerm, ctxLeft,
                   connections, attempted, resp, issued, edited, nreq>>

\* The range is exhausted: return nil.
RestoreReturn ==
    /\ ri = Len(connections) + 1
    /\ ret.op # "RestoreConnections"
    /\ ret' = [NoRet EXCEPT !.op = "RestoreConnections", !.err = "nil"]
    /\ UNCHANGED <<sideVars, drivers, leaked, up, mu, pc, lastTerm, ctxLeft,
                   connections, ri, attempted, resp, issued, edited, nreq>>

NextRestore == RestoreConnect \/ RestoreSkip \/ RestoreReturn

SpecRestore == InitRestore /\ [][NextRestore]_vars

(* ========================== the request layer ========================== *)
\* backend/handlers: every handler runs to completion in its own goroutine;
\* the interleavings of the manager calls are the subject of Spec, here one
\* request is served at a time.  The reachability of a backend is an input
\* of each call that talks to it.
ApiTypes == {"ClickHouse", "Kafka"}
\* "p%zz" is a password that is not a valid piece of a URL.
Passwords == {"s3cret", "p%zz"}

Ops == {"ExecuteQuery", "CreateDatabase", "ListDatabases", "UpdateDatabase",
        "DeleteDatabase", "CreateTable", "ListTables", "DeleteTable",
        "UpdateTable", "CreateUser", "ListUsers", "UpdateUser", "DeleteUser"}

(* ------------------------------ config --------------------------------- *)
\* Position of the first descriptor with the identifier, 0 = error.
GetConnectionByID(conns, id) ==
    IF \E i \in 1..Len(conns) : conns[i].id = id
    THEN CHOOSE i \in 1..Len(conns) :
           conns[i].id = id /\ \A j \in 1..(i - 1) : conns[j].id # id
    ELSE 0

\* The file write of SaveConnections and UpdateConnection succeeds: a failing
\* os.WriteFile is the fault of the persistence collaborator and outside the
\* model.
\* AddConnection storing the descriptor as the response shows it.
AddConnectionBlank(cur, c) == Append(cur, [c EXCEPT !.pw = ""])

AddConnection(cur, c) == Append(cur, c)

UpdateConnection(cur, id, c) ==
    LET i == GetConnectionByID(cur, id) IN
    IF i = 0 THEN [connections |-> cur, err |-> TRUE]
    ELSE LET c2 == [c EXCEPT !.pw = IF c.pw = "" THEN cur[i].pw ELSE c.pw,
                             !.id = id]
         IN [connections |-> [cur EXCEPT ![i] = c2], err |-> FALSE]

DeleteConnection(cur, id) ==
    LET i == GetConnectionByID(cur, id) IN
    IF i = 0 THEN [connections |-> cur, err |-> TRUE]
    ELSE [connections |-> SubSeq(cur, 1, i - 1) \o SubSeq(cur, i + 1, Len(cur)),
          err |-> FALSE]

(* -------------------- adapter operations, forwarded -------------------- *)
\* The operations an adapter refuses with an unconditional error return.
UnsupportedAsError(t) ==
    CASE t = "Aerospike" -> {"CreateDatabase", "UpdateDatabase", "DeleteDatabase",
                             "CreateTable", "ListTables", "DeleteTable", "UpdateTable",
                             "CreateUser", "ListUsers", "UpdateUser", "DeleteUser"}
      [] t = "Couchbase" -> {"UpdateDatabase", "CreateTable", "DeleteTable", "UpdateTable",
                             "CreateUser", "ListUsers", "UpdateUser", "DeleteUser"}
      [] t = "Druid" -> {"CreateDatabase", "UpdateDatabase", "DeleteDatabase", "CreateTable",
                         "DeleteTable", "UpdateTable", "CreateUser", "ListUsers",
                         "UpdateUser", "DeleteUser"}
      [] t = "Elasticsearch" -> {"CreateTable", "UpdateTable"}
      [] t = "InfluxDB" -> {"UpdateDatabase", "CreateTable", "DeleteTable", "UpdateTable",
                            "CreateUser", "ListUsers", "UpdateUser", "DeleteUser"}
      [] t = "Kafka" -> {"UpdateDatabase", "CreateTable", "DeleteTable", "UpdateTable",
                         "CreateUser", "ListUsers", "UpdateUser", "DeleteUser"}
      [] t = "Meilisearch" -> {"CreateTable", "UpdateTable", "CreateUser", "ListUsers",
                               "UpdateUser", "DeleteUser"}
      [] t = "Neo4j" -> {"UpdateDatabase", "CreateTable", "DeleteTable", "UpdateTable",
                         "CreateUser", "ListUsers", "UpdateUser", "DeleteUser"}
      [] t = "RabbitMQ" -> {"UpdateDatabase", "UpdateTable", "CreateUser", "ListUsers",
                            "UpdateUser", "DeleteUser"}
      [] t = "Redis" -> {"UpdateDatabase", "CreateTable", "UpdateTable", "CreateUser",
                         "ListUsers", "UpdateUser", "DeleteUser"}
      [] t = "Zookeeper" -> {"UpdateDatabase", "UpdateTable", "CreateUser", "ListUsers",
                             "UpdateUser", "DeleteUser"}
      [] OTHER -> {}

\* ExecuteQuery of these adapters returns a QueryResponse whose Error field
\* holds the refusal, and a nil error.
UnsupportedAsResult(t) ==
    IF t \in {"Kafka", "RabbitMQ", "Zookeeper", "Aerospike"} THEN {"ExecuteQuery"} ELSE {}

\* One adapter operation.  env: what the backend does with the call, "ok",
\* "backend" (transport or protocol failure) or "timeout" (the context's
\* deadline passes).  out: "value", "resultError" (a QueryResponse with its
\* Error field set and a nil error) or "error".
DriverOp(d, op, env) ==
    IF op \in UnsupportedAsError(d.type)
    THEN [out |-> "error", cause |-> "unsupported"]
    ELSE IF op \in UnsupportedAsResult(d.type)
    THEN [out |-> "resultError", cause |-> "unsupported"]
    ELSE IF ~d.handle
    THEN [out |-> "error", cause |-> "notconnected"]
    ELSE IF env = "ok"
    THEN [out |-> "value", cause |-> "ok"]
    ELSE IF op = "ExecuteQuery" /\ d.type \in PgTypes \cup {"ClickHouse"}
    THEN [out |-> "resultError", cause |-> env]
    ELSE [out |-> "error", cause |-> env]

\* What a handler writes for the outcome of the forwarded operation.
ForwardResponse(r) ==
    CASE r.out = "value" ->
           [NoResp EXCEPT !.status = 200, !.body = "result", !.calls = 1, !.cause = r.cause]
      [] r.out = "resultError" ->
           [NoResp EXCEPT !.status = 200, !.body = "resultWithError", !.calls = 1,
                          !.cause = r.cause]
      [] OTHER ->
           [NoResp EXCEPT !.status = 500, !.body = "text", !.calls = 1, !.cause = r.cause]

\* One more request is served.
Served == nreq < MaxRequests /\ nreq' = nreq + 1

\* ExecuteQueryHandler and the twelve database/table/user handlers: look the
\* adapter up, forward, write the outcome.
ForwardHandler(op, id) ==
    /\ Served
    /\ LET g == ManagerGetDriver(drivers, id)
       IN IF g.err # "nil"
          THEN resp' = [NoResp EXCEPT !.h = "Forward", !.status = 404, !.body = "text"]
          ELSE \E env \in {"ok", "backend", "timeout"} :
                 resp' = [ForwardResponse(DriverOp(g.d, op, env)) EXCEPT !.h = "Forward"]
    /\ UNCHANGED <<sideVars, drivers, leaked, up, mu, pc, ret, lastTerm, ctxLeft,
                   connections, ri, attempted, issued, edited>>

(* ------------------------ connection handlers -------------------------- *)
\* fmt.Sprintf("clickhouse://%s:%s@...") followed by clickhouse.ParseDSN:
\* url.Parse rejects the DSN when the password is not a valid piece of a URL,
\* and its error quotes the DSN.
DsnParses(t, pw) == t # "ClickHouse" \/ pw # "p%zz"

\* ConnectionManager.Connect for a descriptor: ManagerConnect, preceded by
\* the adapter's checks of the password.  shows: the passwords that can be
\* read in the text of the error returned.
ConnectWith(drv, c, accept) ==
    IF CreateDriver(c.type) # NoInst /\ c.type \in PgTypes /\ c.pw = ""
    THEN [drivers |-> drv, leak |-> 0, err |-> "connect", disc |-> 0, shows |-> {}]
    ELSE IF CreateDriver(c.type) # NoInst /\ ~DsnParses(c.type, c.pw)
    THEN [drivers |-> drv, leak |-> 0, err |-> "connect", disc |-> 0, shows |-> {c.pw}]
    ELSE LET r == ManagerConnect(drv, c.id, c.type, c.pw # "", TRUE, accept)
         IN [drivers |-> r.drivers, leak |-> r.leak, err |-> r.err, disc |-> r.disc,
             shows |-> {}]

\* uuid.New(): an identifier never handed out before.
NewId == CHOOSE i \in ApiIds \ issued : \A j \in ApiIds \ issued : i <= j

\* The descriptor fields an edit merges: type stands for the fields merged by
\* the plain rule (name, type, host, port, database, username), pw is the
\* password.
Fields(c) == [type |-> c.type, pw |-> c.pw]

\* The outcome of a probe is read only when the registry holds an adapter.
ProbeOutcomes(id) == IF drivers[id] = NoInst THEN {FALSE} ELSE BOOLEAN

\* req: the decoded body, [type, pw].  accept: the validation Connect gets
\* through; closeErr: the adapter's close call fails.
CreateConnectionHandler(req) ==
    /\ Served
    /\ ApiIds \ issued # {}
    /\ IF req.pw = ""
       THEN /\ resp' = [NoResp EXCEPT !.h = "Create", !.status = 400, !.body = "text"]
            /\ UNCHANGED <<sideVars, drivers, leaked, connections, issued, edited>>
       ELSE \E accept \in BOOLEAN :
            LET id == NewId
                c == [id |-> id, type |-> req.type, pw |-> req.pw, connected |-> FALSE]
                r == ConnectWith(drivers, c, accept)
            IN /\ leaked + r.leak <= MaxLeaked
               /\ leaked' = leaked + r.leak
               /\ issued' = issued \cup {id}
               /\ connections' = AddConnection(connections, c)
               /\ edited' = [edited EXCEPT ![id] = Fields(c)]
               /\ IF r.err # "nil"
                  THEN /\ drivers' = r.drivers
                       /\ resp' = [NoResp EXCEPT !.h = "Create", !.status = 201,
                                                 !.body = "connectionWithWarning",
                                                 !.secrets = r.shows, !.cause = r.err]
                  ELSE /\ \E closeErr \in BOOLEAN :
                            drivers' = ManagerDisconnect(r.drivers, id, closeErr).drivers
                       /\ resp' = [NoResp EXCEPT !.h = "Create", !.status = 201,
                                                 !.body = "connection", !.cause = r.err]
    /\ UNCHANGED <<sideVars, up, mu, pc, ret, lastTerm, ctxLeft, ri, attempted>>

\* GetConnectionsHandler: a copy of the slice is blanked and sent.
GetConnectionsHandler ==
    /\ Served
    /\ resp' = [NoResp EXCEPT !.h = "List", !.status = 200, !.body = "list"]
    /\ UNCHANGED <<sideVars, drivers, leaked, up, mu, pc, ret, lastTerm, ctxLeft,
                   connections, ri, attempted, issued, edited>>

\* GetConnectionHandler: GetConnectionByID returns a pointer into the slice
\* of the config package; the password is blanked and the live flag set
\* through that pointer.  probeUp: the backend answers the probe.
GetConnectionHandler(id, edit) ==
    LET i == GetConnectionByID(connections, id) IN
    /\ Served
    /\ IF i = 0
       THEN /\ resp' = [NoResp EXCEPT !.h = "Get", !.status = 404, !.body = "text"]
            /\ UNCHANGED connections
       ELSE \E probeUp \in ProbeOutcomes(id) :
            LET c == connections[i]
                sent == [c EXCEPT !.pw = IF edit THEN c.pw ELSE "",
                                  !.connected = ManagerIsConnected(drivers, id, probeUp, TRUE)]
            IN /\ connections' = [connections EXCEPT ![i] = sent]
               /\ resp' = [NoResp EXCEPT !.h = "Get", !.status = 200, !.body = "connection",
                                         !.secrets = {sent.pw} \ {""}]
    /\ UNCHANGED <<sideVars, drivers, leaked, up, mu, pc, ret, lastTerm, ctxLeft,
                   ri, attempted, issued, edited>>

\* Any request field left empty takes the stored value.
MergeField(reqv, oldv) == IF reqv = "" THEN oldv ELSE reqv

\* req: the decoded body, [type, pw, connected].
UpdateConnectionHandler(id, req) ==
    LET i == GetConnectionByID(connections, id) IN
    /\ Served
    /\ IF i = 0
       THEN /\ resp' = [NoResp EXCEPT !.h = "Update", !.status = 404, !.body = "text"]
            /\ UNCHANGED <<sideVars, drivers, leaked, connections, edited>>
       ELSE \E probeUp \in ProbeOutcomes(id), accept \in BOOLEAN :
            LET existingConn == connections[i]
                live == ManagerIsConnected(drivers, id, probeUp, TRUE)
                conn == [id |-> id,
                         type |-> MergeField(req.type, existingConn.type),
                         pw |-> MergeField(req.pw, existingConn.pw),
                         connected |-> IF live THEN FALSE ELSE req.connected]
            IN \E closeErr1 \in (IF live THEN BOOLEAN ELSE {FALSE}) :
               LET d1 == IF live THEN ManagerDisconnect(drivers, id, closeErr1).drivers
                                 ELSE drivers
                   r == ConnectWith(d1, conn, accept)
               IN /\ leaked + r.leak <= MaxLeaked
                  /\ leaked' = leaked + r.leak
                  /\ IF r.err # "nil"
                     THEN LET u == UpdateConnection(connections, id, conn)
                          IN /\ drivers' = r.drivers
                             /\ connections' = u.connections
                             /\ edited' = [edited EXCEPT ![id] = Fields(u.connections[i])]
                             /\ resp' = IF u.err
                                        THEN [NoResp EXCEPT !.h = "Update", !.status = 500,
                                                            !.body = "text"]
                                        ELSE [NoResp EXCEPT !.h = "Update", !.status = 200,
                                                            !.body = "connectionWithWarning",
                                                            !.secrets = r.shows,
                                                            !.cause = r.err]
                     ELSE LET u == UpdateConnection(connections, id,
                                                    [conn EXCEPT !.connected = FALSE])
                          IN /\ \E closeErr2 \in BOOLEAN :
                                  drivers' = ManagerDisconnect(r.drivers, id, closeErr2).drivers
                             /\ connections' = u.connections
                             /\ edited' = [edited EXCEPT ![id] = Fields(u.connections[i])]
                             /\ resp' = IF u.err
                                        THEN [NoResp EXCEPT !.h = "Update", !.status = 404,
                                                            !.body = "text"]
                                        ELSE [NoResp EXCEPT !.h = "Update", !.status = 200,
                                                            !.body = "connection",
                                                            !.cause = r.err]
    /\ UNCHANGED <<sideVars, up, mu, pc, ret, lastTerm, ctxLeft, ri, attempted, issued>>

\* DeleteConnectionHandler: Disconnect is called when IsConnected says so.
DeleteConnectionHandler(id) ==
    /\ Served
    /\ \E probeUp \in ProbeOutcomes(id) :
         LET live == ManagerIsConnected(drivers, id, probeUp, TRUE)
             del == DeleteConnection(connections, id)
         IN /\ \E closeErr \in (IF live THEN BOOLEAN ELSE {FALSE}) :
                 drivers' = IF live THEN ManagerDisconnect(drivers, id, closeErr).drivers
                                    ELSE drivers
            /\ connections' = del.connections
            /\ resp' = IF del.err
                       THEN [NoResp EXCEPT !.h = "Delete", !.status = 404, !.body = "text"]
                       ELSE [NoResp EXCEPT !.h = "Delete", !.status = 204]
    /\ UNCHANGED <<sideVars, leaked, up, mu, pc, ret, lastTerm, ctxLeft, ri, attempted,
                   issued, edited>>

\* ConnectHandler: Connect with a copy of the stored descriptor, then the
\* live flag is stored; the error of that UpdateConnection is dropped.
ConnectHandler(id) ==
    LET i == GetConnectionByID(connections, id) IN
    /\ Served
    /\ IF i = 0
       THEN /\ resp' = [NoResp EXCEPT !.h = "Connect", !.status = 404, !.body = "text"]
            /\ UNCHANGED <<sideVars, drivers, leaked, connections>>
       ELSE IF connections[i].pw = ""
       THEN /\ resp' = [NoResp EXCEPT !.h = "Connect", !.status = 500,
                                      !.body = "errorObject", !.cause = "nopassword"]
            /\ UNCHANGED <<sideVars, drivers, leaked, connections>>
       ELSE \E accept \in BOOLEAN :
            LET connCopy == connections[i]
                r == ConnectWith(drivers, connCopy, accept)
            IN /\ leaked + r.leak <= MaxLeaked
               /\ leaked' = leaked + r.leak
               /\ drivers' = r.drivers
               /\ IF r.err # "nil"
                  THEN /\ resp' = [NoResp EXCEPT !.h = "Connect", !.status = 500,
                                                 !.body = "errorObject",
                                                 !.secrets = r.shows, !.cause = r.err]
                       /\ UNCHANGED connections
                  ELSE /\ resp' = [NoResp EXCEPT !.h = "Connect", !.status = 200,
                                                 !.body = "status"]
                       /\ connections' =
                            UpdateConnection(connections, id,
                                             [connCopy EXCEPT !.connected = TRUE]).connections
    /\ UNCHANGED <<sideVars, up, mu, pc, ret, lastTerm, ctxLeft, ri, attempted, issued, edited>>

\* DisconnectHandler: every error of Disconnect is answered with 404; after
\* a Disconnect without error the live flag is cleared through the pointer
\* GetConnectionByID returns, and the descriptor stored again.
DisconnectHandler(id) ==
    /\ Served
    /\ \E closeErr \in (IF drivers[id] = NoInst THEN {FALSE} ELSE BOOLEAN) :
         LET d == ManagerDisconnect(drivers, id, closeErr)
             i == GetConnectionByID(connections, id)
         IN /\ drivers' = d.drivers
            /\ IF d.err # "nil"
               THEN /\ resp' = [NoResp EXCEPT !.h = "Disconnect", !.status = 404,
                                              !.body = "text", !.cause = d.err]
                    /\ UNCHANGED connections
               ELSE /\ resp' = [NoResp EXCEPT !.h = "Disconnect", !.status = 200,
                                              !.body = "status"]
                    /\ connections' =
                         IF i = 0 THEN connections
                         ELSE [connections EXCEPT ![i].connected = FALSE]
    /\ UNCHANGED <<sideVars, leaked, up, mu, pc, ret, lastTerm, ctxLeft, ri, attempted,
                   issued, edited>>

ConnectionStatusHandler(id) ==
    /\ Served
    /\ \E probeUp \in ProbeOutcomes(id) :
         resp' = [NoResp EXCEPT !.h = "Status", !.status = 200, !.body = "status",
                    !.cause = IF ManagerIsConnected(drivers, id, probeUp, TRUE)
                              THEN "connected" ELSE "disconnected"]
    /\ UNCHANGED <<sideVars, drivers, leaked, up, mu, pc, ret, lastTerm, ctxLeft,
                   connections, ri, attempted, issued, edited>>

CreateRequests == [type : ApiTypes, pw : Passwords \cup {""}]
UpdateRequests == [type : ApiTypes \cup {""}, pw : Passwords \cup {""},
                   connected : BOOLEAN]

InitApi ==
    /\ drivers = [i \in IdSpace |-> NoInst]
    /\ leaked = 0
    /\ up = [i \in IdSpace |-> TRUE]
    /\ mu = [writer |-> 0, readers |-> {}]
    /\ pc = [p \in Procs |-> Idle]
    /\ ret = NoRet
    /\ lastTerm = [i \in IdSpace |-> "none"]
    /\ ctxLeft = CloseAllTimeout
    /\ connections = <<>>
    /\ ri = 0
    /\ attempted = {}
    /\ resp = NoResp
    /\ issued = {}
    /\ edited = [i \in IdSpace |-> NoEdit]
    /\ nreq = 0
    /\ SideInit

NextApi ==
    \/ \E req \in CreateRequests : CreateConnectionHandler(req)
    \/ GetConnectionsHandler
    \/ \E id \in ApiIds, edit \in BOOLEAN : GetConnectionHandler(id, edit)
    \/ \E id \in ApiIds, req \in UpdateRequests : UpdateConnectionHandler(id, req)
    \/ \E id \in ApiIds : DeleteConnectionHandler(id)
    \/ \E id \in ApiIds : ConnectHandler(id)
    \/ \E id \in ApiIds : DisconnectHandler(id)
    \/ \E id \in ApiIds : ConnectionStatusHandler(id)
    \/ \E op \in Ops, id \in ApiIds : ForwardHandler(op, id)

SpecApi == InitApi /\ [][NextApi]_vars

(* ==================== the Zookeeper adapter's namespace ================ *)
\* A name is the sequence of its characters.
ZkNames == {<<>>, <<"a">>, <<"/", "a">>, <<".", "a">>, <<"a", "/", "b">>, <<"b">>}

\* path := name; if path[0] != '/' { path = "/" + path }.  Applied to a name
\* that is not empty: the index expression panics on the empty string.
ZkPath(name) == IF name[1] # "/" THEN <<"/">> \o name ELSE name

\* The pieces of s between the "/" characters, cur being the piece read so far.
RECURSIVE SplitFrom(_, _)
SplitFrom(s, cur) ==
    IF s = <<>> THEN <<cur>>
    ELSE IF Head(s) = "/" THEN <<cur>> \o SplitFrom(Tail(s), <<>>)
    ELSE SplitFrom(Tail(s), Append(cur, Head(s)))

\* The segments of a path that starts with "/".
Split(p) == Tail(SplitFrom(p, <<>>))

\* The client library's path validation: no empty segment, no "." or "..".
ValidPath(p) ==
    \A k \in 1..Len(Split(p)) :
       Split(p)[k] \notin {<<>>, <<".">>, <<".", ".">>}

\* ZookeeperDriver.CreateDatabase with nil options; answers: the server
\* answers the request.
ZkCreateNode(nodes, conn, name, answers) ==
    IF ~conn THEN [nodes |-> nodes, out |-> "error"]
    ELSE IF name = <<>> THEN [nodes |-> nodes, out |-> "panic"]
    ELSE LET p == ZkPath(name)
             z == Split(p)
         IN IF \/ ~ValidPath(p) \/ ~answers
               \/ z \in nodes
               \/ Len(z) > 1 /\ SubSeq(z, 1, Len(z) - 1) \notin nodes
            THEN [nodes |-> nodes, out |-> "error"]
            ELSE [nodes |-> nodes \cup {z}, out |-> "nil"]

\* ZookeeperDriver.DeleteDatabase.
ZkDeleteNode(nodes, conn, name, answers) ==
    IF ~conn THEN [nodes |-> nodes, out |-> "error"]
    ELSE IF name = <<>> THEN [nodes |-> nodes, out |-> "panic"]
    ELSE LET p == ZkPath(name)
             z == Split(p)
         IN IF \/ ~ValidPath(p) \/ ~answers
               \/ z \notin nodes
               \/ \E n \in nodes : Len(n) > Len(z) /\ SubSeq(n, 1, Len(z)) = z
            THEN [nodes |-> nodes, out |-> "error"]
            ELSE [nodes |-> nodes \ {z}, out |-> "nil"]

\* ZookeeperDriver.ListDatabases: the children of "/" whose name does not
\* start with ".", each as "/" + child.
ZkRootChildren(nodes, conn, answers) ==
    IF ~conn \/ ~answers THEN [list |-> {}, out |-> "error"]
    ELSE [list |-> {<<"/">> \o n[1] : n \in {m \in nodes : Len(m) = 1 /\ m[1][1] # "."}},
          out |-> "nil"]

\* zk.Connect without credentials, and Disconnect.
ZkConnect ==
    /\ ~zconn
    /\ zconn' = TRUE
    /\ zret' = [NoZkRet EXCEPT !.op = "Connect"]
    /\ UNCHANGED <<notZk, znodes>>

ZkDisconnect ==
    /\ zconn' = FALSE
    /\ zret' = [NoZkRet EXCEPT !.op = "Disconnect"]
    /\ UNCHANGED <<notZk, znodes>>

ZkCreateDatabase(name) ==
    /\ \E answers \in BOOLEAN :
         LET r == ZkCreateNode(znodes, zconn, name, answers)
         IN /\ znodes' = r.nodes
            /\ zret' = [NoZkRet EXCEPT !.op = "CreateDatabase", !.name = name, !.out = r.out]
    /\ UNCHANGED <<notZk, zconn>>

\* CreateTable is CreateDatabase with nil options.
ZkCreateTable(name) ==
    /\ \E answers \in BOOLEAN :
         LET r == ZkCreateNode(znodes, zconn, name, answers)
         IN /\ znodes' = r.nodes
            /\ zret' = [NoZkRet EXCEPT !.op = "CreateTable", !.name = name, !.out = r.out]
    /\ UNCHANGED <<notZk, zconn>>

ZkDeleteDatabase(name) ==
    /\ \E answers \in BOOLEAN :
         LET r == ZkDeleteNode(znodes, zconn, name, answers)
         IN /\ znodes' = r.nodes
            /\ zret' = [NoZkRet EXCEPT !.op = "DeleteDatabase", !.name = name, !.out = r.out]
    /\ UNCHANGED <<notZk, zconn>>

\* DeleteTable is DeleteDatabase.
ZkDeleteTable(name) ==
    /\ \E answers \in BOOLEAN :
         LET r == ZkDeleteNode(znodes, zconn, name, answers)
         IN /\ znodes' = r.nodes
            /\ zret' = [NoZkRet EXCEPT !.op = "DeleteTable", !.name = name, !.out = r.out]
    /\ UNCHANGED <<notZk, zconn>>

ZkListDatabases ==
    /\ \E answers \in BOOLEAN :
         LET r == ZkRootChildren(znodes, zconn, answers)
         IN zret' = [NoZkRet EXCEPT !.op = "ListDatabases", !.out = r.out, !.list = r.list]
    /\ UNCHANGED <<notZk, zconn, znodes>>

InitZk == Quiet /\ SideInit

NextZk ==
    \/ ZkConnect
    \/ ZkDisconnect
    \/ \E name \in ZkNames : ZkCreateDatabase(name)
    \/ \E name \in ZkNames : ZkCreateTable(name)
    \/ \E name \in ZkNames : ZkDeleteDatabase(name)
    \/ \E name \in ZkNames : ZkDeleteTable(name)
    \/ ZkListDatabases

SpecZk == InitZk /\ [][NextZk]_vars

(* ================= handlers running concurrently ======================= *)
\* Each request runs in its own goroutine; a handler is a sequence of calls
\* into the manager and the configuration store, each atomic under that
\* component's mutex, with other requests running in between.

\* ConnectHandler up to the return of connManager.Connect.
ConnectHandlerCall(p, id) ==
    LET i == GetConnectionByID(connections, id) IN
    /\ hpc[p].at = "idle"
    /\ Served
    /\ IF i = 0
       THEN /\ resp' = [NoResp EXCEPT !.h = "Connect", !.status = 404, !.body = "text"]
            /\ UNCHANGED <<drivers, leaked, hpc>>
       ELSE IF connections[i].pw = ""
       THEN /\ resp' = [NoResp EXCEPT !.h = "Connect", !.status = 500,
                                      !.body = "errorObject", !.cause = "nopassword"]
            /\ UNCHANGED <<drivers, leaked, hpc>>
       ELSE \E accept \in BOOLEAN :
            LET connCopy == connections[i]
                r == ConnectWith(drivers, connCopy, accept)
            IN /\ leaked + r.leak <= MaxLeaked
               /\ leaked' = leaked + r.leak
               /\ drivers' = r.drivers
               /\ IF r.err # "nil"
                  THEN /\ resp' = [NoResp EXCEPT !.h = "Connect", !.status = 500,
                                                 !.body = "errorObject",
                                                 !.secrets = r.shows, !.cause = r.err]
                       /\ UNCHANGED hpc
                  ELSE /\ UNCHANGED resp
                       /\ hpc' = [q \in Procs |->
                                    IF q = p
                                    THEN [HIdle EXCEPT !.at = "connected", !.id = id,
                                                       !.c = connCopy]
                                    ELSE IF hpc[q].at = "checked" /\ hpc[q].id = id
                                    THEN [hpc[q] EXCEPT !.cur = FALSE]
                                    ELSE hpc[q]]
    /\ UNCHANGED <<notRace, up, mu, pc, ret, lastTerm, ctxLeft, connections, ri,
                   attempted, issued, edited>>

\* ConnectHandler from connCopy.Connected = true to the response.
ConnectHandlerSave(p) ==
    /\ hpc[p].at = "connected"
    /\ connections' = UpdateConnection(connections, hpc[p].id,
                                       [hpc[p].c EXCEPT !.connected = TRUE]).connections
    /\ resp' = [NoResp EXCEPT !.h = "Connect", !.status = 200, !.body = "status"]
    /\ hpc' = [hpc EXCEPT ![p] = HIdle]
    /\ UNCHANGED <<notRace, drivers, leaked, up, mu, pc, ret, lastTerm, ctxLeft, ri,
                   attempted, issued, edited, nreq>>

\* DisconnectHandler up to the return of connManager.Disconnect.  The
\* adapters other than MongoDB, Redis and ClickHouse set their client field
\* to nil in Disconnect.
DisconnectHandlerCall(p, id) ==
    /\ hpc[p].at = "idle"
    /\ Served
    /\ \E closeErr \in (IF drivers[id] = NoInst THEN {FALSE} ELSE BOOLEAN) :
         LET d == ManagerDisconnect(drivers, id, closeErr)
         IN /\ drivers' = d.drivers
            /\ IF d.err # "nil"
               THEN /\ resp' = [NoResp EXCEPT !.h = "Disconnect", !.status = 404,
                                              !.body = "text", !.cause = d.err]
                    /\ UNCHANGED hpc
               ELSE /\ UNCHANGED resp
                    /\ hpc' = [q \in Procs |->
                                 IF q = p
                                 THEN [HIdle EXCEPT !.at = "disconnected", !.id = id]
                                 ELSE IF /\ hpc[q].at = "checked" /\ hpc[q].id = id
                                         /\ hpc[q].cur
                                         /\ drivers[id].type \notin ReturnCloseTypes
                                 THEN [hpc[q] EXCEPT !.nilled = TRUE]
                                 ELSE hpc[q]]
    /\ UNCHANGED <<notRace, leaked, up, mu, pc, ret, lastTerm, ctxLeft, connections, ri,
                   attempted, issued, edited>>

\* DisconnectHandler from config.GetConnectionByID to the response.
DisconnectHandlerSave(p) ==
    LET i == GetConnectionByID(connections, hpc[p].id) IN
    /\ hpc[p].at = "disconnected"
    /\ connections' = IF i = 0 THEN connections
                      ELSE [connections EXCEPT ![i].connected = FALSE]
    /\ resp' = [NoResp EXCEPT !.h = "Disconnect", !.status = 200, !.body = "status"]
    /\ hpc' = [hpc EXCEPT ![p] = HIdle]
    /\ UNCHANGED <<notRace, drivers, leaked, up, mu, pc, ret, lastTerm, ctxLeft, ri,
                   attempted, issued, edited, nreq>>

\* A forwarding handler up to the operation's test of the adapter's handle
\* field (if d.baseURL == "" / if d.pool == nil ...).
OperationBegin(p, op, id) ==
    LET g == ManagerGetDriver(drivers, id)
        r == DriverOp(g.d, op, "ok")
    IN
    /\ hpc[p].at = "idle"
    /\ Served
    /\ IF g.err # "nil"
       THEN /\ resp' = [NoResp EXCEPT !.h = "Forward", !.status = 404, !.body = "text"]
            /\ UNCHANGED hpc
       ELSE IF r.cause \in {"unsupported", "notconnected"}
       THEN /\ resp' = [ForwardResponse(r) EXCEPT !.h = "Forward"]
            /\ UNCHANGED hpc
       ELSE /\ UNCHANGED resp
            /\ hpc' = [hpc EXCEPT ![p] = [HIdle EXCEPT !.at = "checked", !.id = id,
                                                        !.d = g.d, !.op = op,
                                                        !.cur = TRUE]]
    /\ UNCHANGED <<notRace, drivers, leaked, up, mu, pc, ret, lastTerm, ctxLeft,
                   connections, ri, attempted, issued, edited>>

\* The operation uses the client (d.client.Do(req), d.pool.Query ...): a
\* method call through the nil client panics.
OperationEnd(p) ==
    /\ hpc[p].at = "checked"
    /\ IF hpc[p].nilled
       THEN resp' = [NoResp EXCEPT !.h = "Forward", !.body = "panic", !.calls = 1,
                                   !.cause = "nilclient"]
       ELSE \E env \in {"ok", "backend", "timeout"} :
              resp' = [ForwardResponse(DriverOp(hpc[p].d, hpc[p].op, env))
                         EXCEPT !.h = "Forward"]
    /\ hpc' = [hpc EXCEPT ![p] = HIdle]
    /\ UNCHANGED <<notRace, drivers, leaked, up, mu, pc, ret, lastTerm, ctxLeft,
                   connections, ri, attempted, issued, edited, nreq>>

\* The server is up with one stored descriptor per identifier, none of them
\* connected.
InitRace ==
    /\ drivers = [i \in IdSpace |-> NoInst]
    /\ leaked = 0
    /\ up = [i \in IdSpace |-> TRUE]
    /\ mu = [writer |-> 0, readers |-> {}]
    /\ pc = [p \in Procs |-> Idle]
    /\ ret = NoRet
    /\ lastTerm = [i \in IdSpace |-> "none"]
    /\ ctxLeft = CloseAllTimeout
    /\ connections \in [ApiIds -> [id : ApiIds, type : ApiTypes, pw : {"s3cret"},
                                   connected : {FALSE}]]
    /\ \A i \in ApiIds : connections[i].id = i
    /\ ri = 0
    /\ attempted = {}
    /\ resp = NoResp
    /\ issued = ApiIds
    /\ edited = [i \in IdSpace |-> IF i \in ApiIds THEN Fields(connections[i]) ELSE NoEdit]
    /\ nreq = 0
    /\ SideInit

NextRace ==
    \/ \E p \in Procs, id \in ApiIds : ConnectHandlerCall(p, id)
    \/ \E p \in Procs : ConnectHandlerSave(p)
    \/ \E p \in Procs, id \in ApiIds : DisconnectHandlerCall(p, id)
    \/ \E p \in Procs : DisconnectHandlerSave(p)
    \/ \E p \in Procs, op \in {"ListDatabases", "CreateTable"}, id \in ApiIds : OperationBegin(p, op, id)
    \/ \E p \in Procs : OperationEnd(p)

SpecRace == InitRace /\ [][NextRace]_vars

(* ======================== the configuration store ====================== *)
\* Package config keeps the descriptors in the slice `connections` and in the
\* connections file, both behind one mutex that also guards the application
\* config. A slice is a view of a backing array, so two slices taken from
\* `connections` share their elements until append moves one of them.

\* The connections file main finds at startup.
InitialFiles == {<<>>, <<Desc(1)>>, <<Desc(1), Desc(2)>>}

\* The identifiers a request can name: those loaded and those uuid.New can
\* hand out within the calls of a run.
StoreIds == UNION {1..(Len(f) + MaxStoreCalls) : f \in InitialFiles}

Elems(h, s) == IF s.n = 0 THEN <<>> ELSE SubSeq(h[s.a], 1, s.n)

\* append(s, c): in place when the array has room, else into a new array
\* of twice the capacity that receives a copy of the elements.
GoAppend(h, s, c) ==
    IF s.a # 0 /\ s.n < Len(h[s.a])
    THEN [h |-> [h EXCEPT ![s.a][s.n + 1] = c], s |-> [s EXCEPT !.n = s.n + 1]]
    ELSE LET old == Elems(h, s)
             arr == [k \in 1..(IF s.n = 0 THEN 1 ELSE 2 * s.n) |->
                        IF k <= s.n THEN old[k] ELSE IF k = s.n + 1 THEN c ELSE NoDesc]
         IN  [h |-> Append(h, arr), s |-> [a |-> Len(h) + 1, n |-> s.n + 1]]

\* for i := range conns { if conns[i].ID == id ...: the first match, 0 if none.
IndexOf(q, id) ==
    IF \E i \in 1..Len(q) : q[i].id = id
    THEN CHOOSE i \in 1..Len(q) : q[i].id = id /\ \A j \in 1..(i - 1) : q[j].id # id
    ELSE 0

\* append(conns[:i], conns[i+1:]...): the elements behind i move one slot
\* down inside the array conns points into; the result is one shorter.
RemoveAt(h, s, i) ==
    [h |-> [h EXCEPT ![s.a] = [k \in 1..Len(h[s.a]) |->
                                  IF k >= i /\ k < s.n THEN h[s.a][k + 1] ELSE h[s.a][k]]],
     s |-> [s EXCEPT !.n = s.n - 1]]

MuFree == cfgMu = "free"

AllIdle == \A p \in Procs : spc[p].at = "idle"

\* A request reaches the store only once main listens.
CanCall(p) == boot = "listening" /\ spc[p].at = "idle" /\ hist.calls < MaxStoreCalls

\* LoadAppConfig, first statement: mu.Lock().
LoadAppConfigLock ==
    /\ boot = "start"
    /\ MuFree
    /\ cfgMu' = "main"
    /\ boot' = "locked"
    /\ UNCHANGED <<notStore, arrays, cfgConns, connFile, appFile, spc, sret, hist>>

\* LoadAppConfig behind the lock. With the file missing it calls
\* SaveAppConfig, whose first statement is mu.Lock() again: the call goes on
\* to write the file and return only if the mutex is free, and waits
\* otherwise. Every other case returns, and the deferred Unlock runs.
LoadAppConfigRead ==
    /\ boot = "locked"
    /\ IF appFile = "missing"
       THEN IF MuFree
            THEN /\ appFile' = "ok"
                 /\ cfgMu' = "free"
                 /\ boot' = "listening"
                 /\ sret' = [NoSRet EXCEPT !.op = "LoadAppConfig"]
            ELSE /\ boot' = "SaveAppConfig"
                 /\ UNCHANGED <<appFile, cfgMu, sret>>
       ELSE /\ cfgMu' = "free"
            /\ boot' = "listening"
            /\ sret' = [NoSRet EXCEPT !.op = "LoadAppConfig",
                                      !.err = IF appFile = "unreadable" THEN "read" ELSE "nil"]
            /\ UNCHANGED appFile
    /\ UNCHANGED <<notStore, arrays, cfgConns, connFile, spc, hist>>

\* AddConnection up to its call of SaveConnections: GetConnections (RLock,
\* the slice itself, RUnlock) and the append.
AddConnectionRead(p) ==
    /\ CanCall(p)
    /\ MuFree
    /\ LET r == GoAppend(arrays, cfgConns, Desc(hist.next))
       IN  /\ arrays' = r.h
           /\ spc' = [spc EXCEPT ![p] = [at |-> "AddConnection", s |-> r.s, id |-> hist.next]]
    /\ hist' = [hist EXCEPT !.calls = @ + 1, !.next = @ + 1]
    /\ UNCHANGED <<notStore, cfgMu, cfgConns, connFile, appFile, boot, sret>>

\* SaveConnections(conns) for the call p has in progress: under the lock,
\* marshal what conns shows now, write the file, and only then assign.
SaveConnections(p, written) ==
    /\ MuFree
    /\ IF written
       THEN /\ connFile' = Elems(arrays, spc[p].s)
            /\ cfgConns' = spc[p].s
       ELSE UNCHANGED <<connFile, cfgConns>>
    /\ sret' = [op |-> spc[p].at, err |-> IF written THEN "nil" ELSE "write", id |-> spc[p].id]
    /\ spc' = [spc EXCEPT ![p] = SIdle]

AddConnectionSave(p) ==
    /\ spc[p].at = "AddConnection"
    /\ \E written \in BOOLEAN :
          /\ SaveConnections(p, written)
          /\ hist' = IF written
                     THEN [hist EXCEPT !.added = hist.added \cup {spc[p].id}]
                     ELSE [hist EXCEPT !.failed = TRUE]
    /\ UNCHANGED <<notStore, cfgMu, arrays, appFile, boot>>

\* DeleteConnection up to its call of SaveConnections.
DeleteConnectionRead(p, id) ==
    /\ CanCall(p)
    /\ id < hist.next
    /\ MuFree
    /\ LET i == IndexOf(Elems(arrays, cfgConns), id)
       IN  IF i = 0
           THEN /\ sret' = [op |-> "DeleteConnection", err |-> "notfound", id |-> id]
                /\ UNCHANGED <<arrays, spc>>
           ELSE LET r == RemoveAt(arrays, cfgConns, i)
                IN  /\ arrays' = r.h
                    /\ spc' = [spc EXCEPT ![p] = [at |-> "DeleteConnection", s |-> r.s,
                                                  id |-> id]]
                    /\ UNCHANGED sret
    /\ hist' = [hist EXCEPT !.calls = @ + 1]
    /\ UNCHANGED <<notStore, cfgMu, cfgConns, connFile, appFile, boot>>

DeleteConnectionSave(p) ==
    /\ spc[p].at = "DeleteConnection"
    /\ \E written \in BOOLEAN :
          /\ SaveConnections(p, written)
          /\ hist' = IF written
                     THEN [hist EXCEPT !.deleted = hist.deleted \cup {spc[p].id}]
                     ELSE [hist EXCEPT !.failed = TRUE]
    /\ UNCHANGED <<notStore, cfgMu, arrays, appFile, boot>>

\* UpdateConnection, whole: under the lock, overwrite the element, then
\* marshal and write the file.
StoreUpdateConnection(p, id, rev) ==
    /\ CanCall(p)
    /\ id < hist.next
    /\ MuFree
    /\ LET i == IndexOf(Elems(arrays, cfgConns), id)
       IN  IF i = 0
           THEN /\ sret' = [op |-> "UpdateConnection", err |-> "notfound", id |-> id]
                /\ hist' = [hist EXCEPT !.calls = @ + 1]
                /\ UNCHANGED <<arrays, connFile>>
           ELSE /\ arrays' = [arrays EXCEPT ![cfgConns.a][i] = [id |-> id, rev |-> rev]]
                /\ \E written \in BOOLEAN :
                      /\ connFile' = IF written THEN Elems(arrays', cfgConns) ELSE connFile
                      /\ sret' = [op |-> "UpdateConnection",
                                  err |-> IF written THEN "nil" ELSE "write", id |-> id]
                      /\ hist' = [hist EXCEPT !.calls = @ + 1, !.failed = @ \/ ~written]
    /\ UNCHANGED <<notStore, cfgMu, cfgConns, appFile, boot, spc>>

\* main has loaded the connections file and is about to load the
\* application config.
InitStore ==
    /\ Quiet
    /\ ZkInit /\ GateInit /\ RaceInit
    /\ cfgMu = "free"
    /\ connFile \in InitialFiles
    /\ \E room \in {0, 1} :
          IF connFile = <<>>
          THEN arrays = <<>> /\ cfgConns = NilSlice
          ELSE /\ arrays = <<[k \in 1..(Len(connFile) + room) |->
                                IF k <= Len(connFile) THEN connFile[k] ELSE NoDesc]>>
               /\ cfgConns = [a |-> 1, n |-> Len(connFile)]
    /\ appFile \in {"missing", "empty", "unreadable", "ok"}
    /\ boot = "start"
    /\ spc = [p \in Procs |-> SIdle]
    /\ sret = NoSRet
    /\ hist = [NoHist EXCEPT !.next = Len(connFile) + 1,
                             !.initial = {connFile[k].id : k \in 1..Len(connFile)}]

NextStore ==
    \/ LoadAppConfigLock
    \/ LoadAppConfigRead
    \/ \E p \in Procs : AddConnectionRead(p)
    \/ \E p \in Procs : AddConnectionSave(p)
    \/ \E p \in Procs, id \in StoreIds : DeleteConnectionRead(p, id)
    \/ \E p \in Procs : DeleteConnectionSave(p)
    \/ \E p \in Procs, id \in StoreIds, rev \in {0, 1} : StoreUpdateConnection(p, id, rev)

SpecStore == InitStore /\ [][NextStore]_vars

\* main runs on: a step of startup that can be taken is taken.
SpecStoreFair == SpecStore /\ WF_vars(LoadAppConfigLock) /\ WF_vars(LoadAppConfigRead)

(* ============================ the route table ========================== *)
\* A header value is the sequence of its words and spaces.
Headers == {<<>>, <<"Bearer">>, <<"Bearer", " ", "good">>, <<"Bearer", " ", "bad">>,
            <<"Basic", " ", "good">>, <<"bearer", " ", "good">>,
            <<"Bearer", " ", " ", "good">>, <<"Bearer", " ", "good", " ", "x">>}

\* The tokens utils.ValidateToken accepts.
ValidTokens == {"good"}

AuthPaths == {"/api/auth/register", "/api/auth/login"}
Paths == AuthPaths \cup
         {"/api/connections/", "/api/connections/7", "/api/connections/7/connect",
          "/api/connections/7/disconnect", "/api/connections/7/status"} \cup
         {"/api/connections", "/api/query",
          "/api/databases", "/api/databases/update", "/api/databases/delete",
          "/api/tables", "/api/tables/update", "/api/tables/delete",
          "/api/users", "/api/users/update", "/api/users/delete", "/"}

\* strings.Split(s, sep): the pieces of s between the separators, cur being
\* the piece read so far; a piece is the sequence of its words.
RECURSIVE SplitAt(_, _, _)
SplitAt(s, sep, cur) ==
    IF s = <<>> THEN <<cur>>
    ELSE IF Head(s) = sep THEN <<cur>> \o SplitAt(Tail(s), sep, <<>>)
    ELSE SplitAt(Tail(s), sep, Append(cur, Head(s)))

\* AuthMiddleware's decision with no test of the scheme word.
AcceptedAnyScheme(header) ==
    LET parts == SplitAt(header, " ", <<>>)
    IN IF header = <<>> THEN FALSE
       ELSE IF Len(parts) # 2 THEN FALSE
       ELSE \E t \in ValidTokens : parts[2] = <<t>>

\* AuthMiddleware's decision: the header is present, splits into exactly
\* "Bearer" and a token, and ValidateToken accepts the token.
Accepted(header) ==
    LET parts == SplitAt(header, " ", <<>>)
    IN IF header = <<>> THEN FALSE
       ELSE IF Len(parts) # 2 \/ parts[1] # <<"Bearer">> THEN FALSE
       ELSE \E t \in ValidTokens : parts[2] = <<t>>

\* A route's answer without a handler.
Refuse(status) == [handler |-> "none", gated |-> FALSE, status |-> status]
Gated(h) == [handler |-> h, gated |-> TRUE, status |-> 0]
Open(h) == [handler |-> h, gated |-> FALSE, status |-> 0]

\* The method switch of the collection routes.
PostOrGet(method, post, get) ==
    CASE method = "POST" -> Gated(post)
      [] method = "GET" -> Gated(get)
      [] OTHER -> Refuse(405)

\* mux: which handler a path and method are dispatched to, and whether the
\* dispatch goes through AuthMiddleware.
Route(path, method) ==
    CASE path = "/api/auth/register" -> Open("RegisterHandler")
      [] path = "/api/auth/login" -> Open("LoginHandler")
      [] path = "/api/connections" ->
           PostOrGet(method, "CreateConnectionHandler", "GetConnectionsHandler")
      [] path = "/api/connections/7/connect" -> Gated("ConnectHandler")
      [] path = "/api/connections/7/disconnect" -> Gated("DisconnectHandler")
      [] path = "/api/connections/7/status" -> Gated("ConnectionStatusHandler")
      [] path = "/api/connections/" -> Refuse(400)
      [] path = "/api/connections/7" ->
           (CASE method = "GET" -> Gated("GetConnectionHandler")
              [] method = "PUT" -> Gated("UpdateConnectionHandler")
              [] method = "DELETE" -> Gated("DeleteConnectionHandler")
              [] OTHER -> Refuse(405))
      [] path = "/api/query" -> Gated("ExecuteQueryHandler")
      [] path = "/api/databases" ->
           PostOrGet(method, "CreateDatabaseHandler", "ListDatabasesHandler")
      [] path = "/api/databases/update" -> Gated("UpdateDatabaseHandler")
      [] path = "/api/databases/delete" -> Gated("DeleteDatabaseHandler")
      [] path = "/api/tables" ->
           PostOrGet(method, "CreateTableHandler", "ListTablesHandler")
      [] path = "/api/tables/update" -> Gated("UpdateTableHandler")
      [] path = "/api/tables/delete" -> Gated("DeleteTableHandler")
      [] path = "/api/users" ->
           PostOrGet(method, "CreateUserHandler", "ListUsersHandler")
      [] path = "/api/users/update" -> Gated("UpdateUserHandler")
      [] path = "/api/users/delete" -> Gated("DeleteUserHandler")
      [] OTHER -> Open("static")

\* A request arrives.
Receive(path, method, header) ==
    /\ gat = "idle"
    /\ greq' = [path |-> path, method |-> method, header |-> header]
    /\ gat' = "cors"
    /\ gresp' = NoGResp
    /\ UNCHANGED notGate

\* CORSMiddleware: a preflight is answered at once.
Cors ==
    /\ gat = "cors"
    /\ IF greq.method = "OPTIONS"
       THEN gat' = "idle" /\ gresp' = [NoGResp EXCEPT !.status = 200]
       ELSE gat' = "mux" /\ UNCHANGED gresp
    /\ UNCHANGED <<notGate, greq>>

\* The route's function runs.
Mux ==
    /\ gat = "mux"
    /\ LET r == Route(greq.path, greq.method)
       IN IF r.handler = "none"
          THEN gat' = "idle" /\ gresp' = [NoGResp EXCEPT !.status = r.status]
          ELSE gat' = (IF r.gated THEN "gate" ELSE "handler") /\ UNCHANGED gresp
    /\ UNCHANGED <<notGate, greq>>

AuthMiddleware ==
    /\ gat = "gate"
    /\ IF Accepted(greq.header)
       THEN gat' = "handler" /\ UNCHANGED gresp
       ELSE gat' = "idle" /\ gresp' = [NoGResp EXCEPT !.status = 401]
    /\ UNCHANGED <<notGate, greq>>

\* The handler (and through it the manager and the adapters) runs and
\* answers.
Handle ==
    /\ gat = "handler"
    /\ \E status \in {200, 400, 404, 405, 500} :
         gresp' = [status |-> status, handler |-> Route(greq.path, greq.method).handler]
    /\ gat' = "idle"
    /\ UNCHANGED <<notGate, greq>>

InitGate == Quiet /\ SideInit

NextGate ==
    \/ \E path \in Paths, method \in {"GET", "POST", "PUT", "DELETE", "PATCH", "OPTIONS"}, header \in Headers :
          Receive(path, method, header)
    \/ Cors
    \/ Mux
    \/ AuthMiddleware
    \/ Handle

SpecGate == InitGate /\ [][NextGate]_vars

(* ======================= properties of the manager ===================== *)
Registered == {i \in IdSpace : drivers[i] # NoInst}
Flagged == {connections[i].id : i \in {j \in 1..Len(connections) : connections[j].connected}}
RestoreDone == ret.op = "RestoreConnections"

\* C1: GetDriver(id) succeeds exactly when the most recent terminal
\* transition of id was a successful Connect(id) - one not followed by a
\* Disconnect(id) or a shutdown - and fails with the not-found error in
\* every other case.
C1_GetDriverIffLastConnect ==
    [][\A p \in Procs, id \in Ids :
          GetDriver(p, id) =>
             /\ (ret'.err = "nil") <=> (lastTerm[id] = "connect")
             /\ ret'.err \in {"nil", "notfound"}]_vars

\* C2: when Connect replaces the entry of an identifier that is already
\* registered, the adapter registered before has its Disconnect invoked
\* exactly once first, and no open session is left without a registry entry.
C2_ReplaceDisconnectsOld ==
    [][\A p \in Procs :
          (ConnectEnd(p) /\ drivers[pc[p].id] # NoInst /\ ret'.err = "nil") =>
             (ret'.disc = 1 /\ leaked' = leaked)]_vars

\* C3: after a Connect(id) that returns an error (unsupported type or adapter
\* connect failure) the registry holds no entry for id, whether id was
\* registered before the call or not.
C3_FailedConnectNoEntry ==
    [][/\ \A p \in Procs :
            (ConnectEnd(p) /\ ret'.err # "nil") => drivers'[pc[p].id] = NoInst
       /\ \A p \in Procs, id \in Ids, t \in ConnTypes :
            ConnectUnsupported(p, id, t) => drivers'[id] = NoInst]_vars

\* C4: Disconnect(id) is idempotent: a call that follows a Disconnect(id), or
\* that finds id without an entry, leaves the registry as it is and returns
\* no error.
C4_DisconnectIdempotent ==
    [][\A p \in Procs, id \in Ids :
          (/\ DisconnectNotFound(p, id) \/ (DisconnectEnd(p) /\ pc[p].id = id)
           /\ (lastTerm[id] = "disconnect" \/ drivers[id] = NoInst)) =>
             (drivers' = drivers /\ ret'.err = "nil")]_vars

\* C5: when the adapter's own Disconnect returns an error, the manager's
\* Disconnect(id) still removes the registry entry of id.
C5_FailedDisconnectRemovesEntry ==
    [][\A p \in Procs :
          (DisconnectEnd(p) /\ ret'.err = "disconnect") =>
             drivers'[pc[p].id] = NoInst]_vars

\* C6: for every adapter variant, IsConnected(id) answers true while the
\* last successful Connect(id) stands and the backend is reachable, and
\* false when the check is made with the backend unreachable.
C6_IsConnectedReprobes ==
    [][\A p \in Procs :
          IsConnectedEnd(p) =>
             LET id == pc[p].id
             IN /\ (~pc[p].seen /\ ~up[id]) => ret'.val = FALSE
                /\ (pc[p].seen /\ up[id] /\ lastTerm[id] = "connect") => ret'.val = TRUE]_vars

\* C7: IsConnected holds the registry lock for the map lookup only: while
\* probes are in flight and no other call is inside the manager, a Connect or
\* a Disconnect can take the lock.
C7_ProbeOutsideLock ==
    ((\E p \in Procs : pc[p].at = "probing")
        /\ (\A q \in Procs : pc[q].at \in {"idle", "probing"})) => CanLock

\* C8: no backend call is made under the exclusive registry lock: while a
\* Connect or Disconnect waits for its backend call, the lock is free for
\* the calls of the other goroutines.
C8_NoBackendCallUnderLock ==
    \A p \in Procs : pc[p].at \in {"connecting", "disconnecting"} => CanRLock

\* C9: RestoreConnections calls Connect exactly for the flagged descriptors,
\* goes on after a failure, returns nil, and leaves registered exactly the
\* flagged descriptors whose Connect succeeded; a flagged descriptor whose
\* backend is unreachable is not among them.
C9_RestoreExactlyReachableFlagged ==
    RestoreDone =>
       /\ ret.err = "nil"
       /\ attempted = Flagged
       /\ Registered = {i \in attempted : lastTerm[i] = "connect"}
       /\ \A i \in Flagged : ~up[i] => drivers[i] = NoInst

\* C10: CloseAll invokes Disconnect once on every registered adapter, each
\* call with the whole timeout as its own budget, however long the calls
\* before it ran, and the registry is empty when it returns.
C10_CloseAllOwnBudget ==
    [][/\ \A p \in Procs :
            CloseAllStep(p) => (ret'.disc = 1 /\ ctxLeft = CloseAllTimeout)
       /\ \A p \in Procs :
            CloseAllEnd(p) => \A i \in Ids : drivers'[i] = NoInst]_vars

\* C11: the factory returns an unconnected adapter of the requested variant
\* for each of the 17 known tags, whatever the registry holds, and nothing
\* for any other tag; Connect with such a tag returns the unsupported-type
\* error, calls no adapter and leaves the registry as it was.
C11_FactoryAndUnsupported ==
    [][/\ Cardinality(KnownTypes) = 17
       /\ \A t \in KnownTypes :
            CreateDriver(t) = [type |-> t, handle |-> FALSE, sess |-> "none"]
       /\ \A t \in UnknownTags : CreateDriver(t) = NoInst
       /\ \A p \in Procs, id \in Ids, t \in ConnTypes \cup UnknownTags :
            /\ ConnectUnsupported(p, id, t) =>
                  /\ t \notin KnownTypes
                  /\ ret'.op = "Connect" /\ ret'.err = "unsupported"
                  /\ ret'.disc = 0
                  /\ drivers' = drivers /\ leaked' = leaked
            /\ ConnectBegin(p, id, t) => t \in KnownTypes]_vars

\* A Connect with an unknown tag has returned while the registry held an
\* entry.
C11_Witness ==
    /\ ret.op = "Connect" /\ ret.err = "unsupported"
    /\ \E id \in Ids : drivers[id] # NoInst

(* ==================== properties of the request layer ================== *)
Stored(id) == connections[GetConnectionByID(connections, id)]
IsStored(id) == GetConnectionByID(connections, id) # 0
Connected(t) == [type |-> t, handle |-> TRUE, sess |-> "open"]

C13_UnsupportedDistinct ==
    (resp.h = "Forward" /\ resp.cause = "unsupported") =>
       \A t \in KnownTypes, op \in Ops, env \in {"backend", "timeout"} :
          LET r == ForwardResponse(DriverOp(Connected(t), op, env))
          IN r.cause = env => <<r.status, r.body>> # <<resp.status, resp.body>>

\* C14: no response shows a stored password, except the response to a get
\* request that carries edit=true.
C14_SecretOnlyOnReveal ==
    [][resp'.secrets # {} => \E id \in ApiIds : GetConnectionHandler(id, TRUE)]_vars

C16_ValidationDisconnected ==
    [][\A req \in CreateRequests :
          (CreateConnectionHandler(req) /\ req.pw # "" /\ resp'.cause = "nil") =>
             LET id == NewId
             IN /\ drivers'[id] = NoInst
                /\ GetConnectionByID(connections', id) # 0
                /\ ~connections'[GetConnectionByID(connections', id)].connected]_vars

\* C17: an edit stores, for every field, the request's value when it is not
\* empty and otherwise the value stored when the descriptor was last created
\* or edited, whatever reads, connects and disconnects came in between.
C17_EditMergesFields ==
    [][\A id \in ApiIds, req \in UpdateRequests :
          (UpdateConnectionHandler(id, req) /\ IsStored(id)) =>
             LET c == connections'[GetConnectionByID(connections', id)]
             IN /\ c.type = MergeField(req.type, edited[id].type)
                /\ c.pw = MergeField(req.pw, edited[id].pw)]_vars

\* C18: after a delete that is answered with success the registry holds no
\* adapter for the identifier and the descriptor is gone, whether the
\* backend was reachable or not.
C18_DeleteDisconnects ==
    [][\A id \in ApiIds :
          (DeleteConnectionHandler(id) /\ resp'.status = 204) =>
             /\ drivers'[id] = NoInst
             /\ GetConnectionByID(connections', id) = 0]_vars

(* ======================= properties of the adapters ==================== *)
\* C19: Connect returns success only after a liveness probe that the backend
\* answered: whenever the startup loop's Connect call succeeds, the backend
\* of the descriptor is reachable.
C19_ConnectProbes ==
    [][(RestoreConnect /\ ret'.err = "nil") => up[connections[ri].id]]_vars

\* C20: Disconnect of a registered adapter returns no error whatever the
\* client library's close call does, leaves the adapter without a client, so
\* that a second Disconnect finds nothing to close, and the second
\* Disconnect returns no error either; Disconnect of an adapter that was
\* never connected returns no error.
C20_AdapterDisconnectIdempotent ==
    /\ \A t \in KnownTypes, e \in BOOLEAN : ~DriverDisconnect(NewDriver(t), e).err
    /\ \A id \in Ids : drivers[id] # NoInst =>
          \A e1 \in BOOLEAN, e2 \in BOOLEAN :
             LET r1 == DriverDisconnect(drivers[id], e1)
                 r2 == DriverDisconnect(r1.drv, e2)
             IN ~r1.err /\ ~r1.drv.handle /\ ~r2.err

\* C21: a Connect that fails in the adapter leaves no backend session open:
\* the count of open sessions no registry entry refers to does not grow.
C21_FailedConnectReleases ==
    [][\A p \in Procs :
          (ConnectEnd(p) /\ ret'.err = "connect") => leaked' = leaked]_vars

\* C22: after a CreateDatabase(name) that succeeded, ListDatabases on the
\* same connection returns a list with an entry whose name is name.
C22_CreateThenList ==
    [][\A name \in ZkNames :
          (ZkCreateDatabase(name) /\ zret'.out = "nil") =>
             name \in ZkRootChildren(znodes', zconn', TRUE).list]_vars

\* C23: outside /api/auth/ a handler runs only for a request whose
\* Authorization header is "Bearer", one space and a valid token; for any
\* other header the auth gate answers 401 and no handler runs.
Authorized(header) ==
    Len(header) = 3 /\ header[1] = "Bearer" /\ header[2] = " " /\ header[3] \in ValidTokens

C23_HandlerBehindGate ==
    [][/\ (gat' = "handler" /\ greq'.path \in Paths \ (AuthPaths \cup {"/"}))
           => Authorized(greq'.header)
       /\ (gresp'.handler \notin {"none", "static", "RegisterHandler", "LoginHandler"})
           => Authorized(greq.header)
       /\ (AuthMiddleware /\ ~Authorized(greq.header))
           => (gat' = "idle" /\ gresp' = [NoGResp EXCEPT !.status = 401])]_vars

\* A handler behind the gate has answered a request the gate accepted.
C23_Witness ==
    /\ gresp.handler = "ExecuteQueryHandler"
    /\ Authorized(greq.header)

\* C24: a read leaves the stored descriptors as they are: after a get of
\* one connection (with or without the reveal flag) and after a list, every
\* stored descriptor has the password and the live flag it had before.
C24_ReadsLeaveStore ==
    [][(\/ GetConnectionsHandler
        \/ \E id \in ApiIds, edit \in BOOLEAN : GetConnectionHandler(id, edit))
       => connections' = connections]_vars

\* C26: no operation running on an adapter that GetDriver handed out uses a
\* client that Disconnect has cleared: no request ends in a panic.
C26_NoUseAfterDisconnect == resp.body # "panic"

\* C27: when no connect or disconnect request is in progress, the stored
\* live flag of every descriptor is true exactly when the registry holds an
\* adapter for its identifier.
C27_FlagMatchesRegistry ==
    (\A p \in Procs : hpc[p].at \notin {"connected", "disconnected"}) =>
       \A id \in ApiIds : IsStored(id) => (Stored(id).connected <=> drivers[id] # NoInst)

\* C30: no operation of a connected adapter panics, whatever the name it is
\* given.
C30_NoPanic == zret.out # "panic"


(* ----------------- properties of the configuration store --------------- *)
\* C25: LoadAppConfig returns in every run of startup, also when the
\* application config file does not exist, so that main goes on to listen.
C25_StartupListens == <>(boot = "listening")

\* C28: once every AddConnection and DeleteConnection call has returned, and
\* no file write has failed, the connections file holds exactly the loaded
\* and the added descriptors without the deleted ones, each once.
C28_NoLostDescriptor ==
    (AllIdle /\ ~hist.failed) =>
        /\ \A j, k \in 1..Len(connFile) : connFile[j].id = connFile[k].id => j = k
        /\ {connFile[k].id : k \in 1..Len(connFile)} =
               (hist.initial \cup hist.added) \ hist.deleted

\* C29: whenever no store call is in progress, the slice `connections`
\* shows what was last written to the connections file, also after a call
\* whose file write failed.
C29_MemoryIsFile == AllIdle => Elems(arrays, cfgConns) = connFile

=============================================================================
